---- MODULE Spec2Model ----
(***************************************************************************)
(* A model of ipymarkup's markup.py: Span ordering, Markup construction    *)
(* (sort + overlap layout), the Wrapper line-wrap generator and the        *)
(* AsciiMarkup.as_ascii renderer.                                          *)
(*                                                                         *)
(* Characters are code points (integers), so that Python's string order    *)
(* can be computed; a str is a sequence of code points.  Text offsets are  *)
(* 0-based as in the source; TLA+ sequences are 1-based.                   *)
(***************************************************************************)
EXTENDS Integers, Sequences, FiniteSets, TLC

VARIABLES
    text,        \* Markup.text: the str given to the constructor
    width,       \* the width given to AsciiMarkup.__init__
    input,       \* the spans argument, in the caller's order
    spans,       \* Markup.spans (sorted)
    multilines,  \* Markup.multilines
    pending,     \* what the Wrapper generator has still to yield
    index,       \* as_ascii's local `index`
    frame,       \* as_ascii's locals start, stop, line, slices while suspended
    rowsLeft,    \* the rows of `matrix` as_ascii has still to yield
    log,         \* one record per wrapped line as_ascii has painted
    out,         \* the strings as_ascii has yielded
    pc           \* where the generator is: "new" (no object yet) | "rendering"
                 \* (not started) | "line" (suspended at line 269) | "row"
                 \* (suspended at line 296) | "done" (returned) | "error" (raised)

vars == <<text, width, input, spans, multilines, pending, index, frame, rowsLeft,
          log, out, pc>>

----------------------------------------------------------------------------
(* Bounds of the model *)

MaxTextLen == 2
MaxWidth == 2
MaxSpans == 2
MaxLayoutLen == 3
MaxLayoutSpans == 3
MaxOrderSpans == 3
MaxOrderPos == 2
MaxWrapLen == 5
MaxWrapWidth == 3

----------------------------------------------------------------------------
(* Characters *)

LF == 10
CR == 13
TAB == 9
SP == 32
DASH == 45

Max(a, b) == IF a >= b THEN a ELSE b
Min(a, b) == IF a <= b THEN a ELSE b

RECURSIVE Concat(_)
Concat(ss) == IF ss = <<>> THEN <<>> ELSE Head(ss) \o Concat(Tail(ss))

\* s[:n] for a Python sequence s and an integer n
Prefix(s, n) ==
    IF n >= 0 THEN SubSeq(s, 1, Min(n, Len(s)))
    ELSE SubSeq(s, 1, Max(0, Len(s) + n))

\* s[n:] for 0 <= n
Suffix(s, n) == SubSeq(s, Min(n, Len(s)) + 1, Len(s))

----------------------------------------------------------------------------
(* Span *)

\* A span's type is None or a str
None == [isNone |-> TRUE, str |-> <<>>]
Str(s) == [isNone |-> FALSE, str |-> s]

Span(start, stop, type) == [start |-> start, stop |-> stop, type |-> type]

\* Python's str.__lt__: lexicographic by code point, a proper prefix first
RECURSIVE StrLt(_, _)
StrLt(a, b) ==
    IF b = <<>> THEN FALSE
    ELSE IF a = <<>> THEN TRUE
    ELSE IF Head(a) # Head(b) THEN Head(a) < Head(b)
    ELSE StrLt(Tail(a), Tail(b))

\* Lt with the category tie-break left out
LtNoType(self, other) ==
    IF self.start # other.start THEN self.start < other.start
    ELSE self.stop < other.stop

\* Span.__lt__
Lt(self, other) ==
    IF self.start # other.start THEN self.start < other.start
    ELSE IF self.stop # other.stop THEN self.stop < other.stop
    ELSE IF self.type # other.type THEN
        IF self.type.isNone THEN TRUE
        ELSE IF other.type.isNone THEN FALSE
        ELSE StrLt(self.type.str, other.type.str)
    ELSE FALSE

\* sorted(): a stable sort that compares with __lt__ only
RECURSIVE Insert(_, _)
Insert(x, s) ==
    IF s = <<>> THEN <<x>>
    ELSE IF Lt(x, Head(s)) THEN <<x>> \o s
    ELSE <<Head(s)>> \o Insert(x, Tail(s))

RECURSIVE SortInto(_, _)
SortInto(acc, rest) ==
    IF rest = <<>> THEN acc
    ELSE SortInto(Insert(Head(rest), acc), Tail(rest))

\* A constructor that keeps the caller's order
Unsorted(s) == s

\* self.spans = sorted(spans)
Sorted(s) == SortInto(<<>>, s)

----------------------------------------------------------------------------
(* The overlap layout engine (multiline.get_multilines), after the design     *)
(* document, section 4.2: greedy smallest-free-level assignment over the    *)
(* sorted spans, one group per maximal run of overlapping spans.            *)

Line(start, stop, type, level) ==
    [start |-> start, stop |-> stop, type |-> type, level |-> level]

Multiline(start, stop, lines) == [start |-> start, stop |-> stop, lines |-> lines]

\* The smallest level no active line uses; active: stop not yet passed
FreeLevel(assigned, span) ==
    LET used == {assigned[i].level :
                    i \in {j \in DOMAIN assigned : assigned[j].stop > span.start}}
    IN  CHOOSE n \in 0..Len(assigned) :
            n \notin used /\ \A m \in 0..(n - 1) : m \in used

RECURSIVE AssignLevels(_, _)
AssignLevels(assigned, rest) ==
    IF rest = <<>> THEN assigned
    ELSE LET s == Head(rest)
         IN  AssignLevels(
                 Append(assigned, Line(s.start, s.stop, s.type, FreeLevel(assigned, s))),
                 Tail(rest))

\* Maximal runs connected by overlap; touching alone starts a new group
RECURSIVE GroupLines(_, _)
GroupLines(groups, rest) ==
    IF rest = <<>> THEN groups
    ELSE LET l == Head(rest)
             n == Len(groups)
         IN  IF n > 0 /\ l.start < groups[n].stop
             THEN GroupLines(
                      [groups EXCEPT ![n] =
                          Multiline(@.start, Max(@.stop, l.stop), Append(@.lines, l))],
                      Tail(rest))
             ELSE GroupLines(Append(groups, Multiline(l.start, l.stop, <<l>>)), Tail(rest))

get_multilines(sortedSpans) == GroupLines(<<>>, AssignLevels(<<>>, sortedSpans))

----------------------------------------------------------------------------
(* Wrapper *)

\* The line boundaries of str.splitlines: LF, VT, FF, CR, FS, GS, RS, NEL,
\* LINE SEPARATOR and PARAGRAPH SEPARATOR
IsLineBreak(c) == c \in {LF, 11, 12, CR, 28, 29, 30, 133, 8232, 8233}

\* text.splitlines(): "\r\n" is one boundary; no empty last line
RECURSIVE SplitLines(_, _)
SplitLines(t, cur) ==
    IF t = <<>> THEN (IF cur = <<>> THEN <<>> ELSE <<cur>>)
    ELSE IF Head(t) = CR /\ Len(t) >= 2 /\ t[2] = LF
         THEN <<cur>> \o SplitLines(Tail(Tail(t)), <<>>)
    ELSE IF IsLineBreak(Head(t)) THEN <<cur>> \o SplitLines(Tail(t), <<>>)
    ELSE SplitLines(Tail(t), Append(cur, Head(t)))

\* The character at 0-based offset p of t; -1 outside t
At(t, p) == IF p >= 0 /\ p < Len(t) THEN t[p + 1] ELSE -1

\* textwrap's whitespace, '\t\n\x0b\x0c\r '
IsSpace(c) == c \in {TAB, LF, 11, 12, CR, SP}

\* The code points \d of a str pattern matches (the decimal digits of Unicode
\* 14.0, the tables of Python 3.11), as ranges <<first, last>>
DigitRanges ==
  <<
    <<48, 57>>, <<1632, 1641>>, <<1776, 1785>>, <<1984, 1993>>, <<2406, 2415>>,
    <<2534, 2543>>, <<2662, 2671>>, <<2790, 2799>>, <<2918, 2927>>, <<3046, 3055>>,
    <<3174, 3183>>, <<3302, 3311>>, <<3430, 3439>>, <<3558, 3567>>, <<3664, 3673>>,
    <<3792, 3801>>, <<3872, 3881>>, <<4160, 4169>>, <<4240, 4249>>, <<6112, 6121>>,
    <<6160, 6169>>, <<6470, 6479>>, <<6608, 6617>>, <<6784, 6793>>, <<6800, 6809>>,
    <<6992, 7001>>, <<7088, 7097>>, <<7232, 7241>>, <<7248, 7257>>, <<42528, 42537>>,
    <<43216, 43225>>, <<43264, 43273>>, <<43472, 43481>>, <<43504, 43513>>, <<43600, 43609>>,
    <<44016, 44025>>, <<65296, 65305>>, <<66720, 66729>>, <<68912, 68921>>, <<69734, 69743>>,
    <<69872, 69881>>, <<69942, 69951>>, <<70096, 70105>>, <<70384, 70393>>, <<70736, 70745>>,
    <<70864, 70873>>, <<71248, 71257>>, <<71360, 71369>>, <<71472, 71481>>, <<71904, 71913>>,
    <<72016, 72025>>, <<72784, 72793>>, <<73040, 73049>>, <<73120, 73129>>, <<92768, 92777>>,
    <<92864, 92873>>, <<93008, 93017>>, <<120782, 120831>>, <<123200, 123209>>, <<123632, 123641>>,
    <<125264, 125273>>, <<130032, 130041>>
  >>

\* The code points \w of a str pattern matches (alphanumerics and "_"), as
\* ranges <<first, last>>
WordRanges ==
  <<
    <<48, 57>>, <<65, 90>>, <<95, 95>>, <<97, 122>>, <<170, 170>>,
    <<178, 179>>, <<181, 181>>, <<185, 186>>, <<188, 190>>, <<192, 214>>,
    <<216, 246>>, <<248, 705>>, <<710, 721>>, <<736, 740>>, <<748, 748>>,
    <<750, 750>>, <<880, 884>>, <<886, 887>>, <<890, 893>>, <<895, 895>>,
    <<902, 902>>, <<904, 906>>, <<908, 908>>, <<910, 929>>, <<931, 1013>>,
    <<1015, 1153>>, <<1162, 1327>>, <<1329, 1366>>, <<1369, 1369>>, <<1376, 1416>>,
    <<1488, 1514>>, <<1519, 1522>>, <<1568, 1610>>, <<1632, 1641>>, <<1646, 1647>>,
    <<1649, 1747>>, <<1749, 1749>>, <<1765, 1766>>, <<1774, 1788>>, <<1791, 1791>>,
    <<1808, 1808>>, <<1810, 1839>>, <<1869, 1957>>, <<1969, 1969>>, <<1984, 2026>>,
    <<2036, 2037>>, <<2042, 2042>>, <<2048, 2069>>, <<2074, 2074>>, <<2084, 2084>>,
    <<2088, 2088>>, <<2112, 2136>>, <<2144, 2154>>, <<2160, 2183>>, <<2185, 2190>>,
    <<2208, 2249>>, <<2308, 2361>>, <<2365, 2365>>, <<2384, 2384>>, <<2392, 2401>>,
    <<2406, 2415>>, <<2417, 2432>>, <<2437, 2444>>, <<2447, 2448>>, <<2451, 2472>>,
    <<2474, 2480>>, <<2482, 2482>>, <<2486, 2489>>, <<2493, 2493>>, <<2510, 2510>>,
    <<2524, 2525>>, <<2527, 2529>>, <<2534, 2545>>, <<2548, 2553>>, <<2556, 2556>>,
    <<2565, 2570>>, <<2575, 2576>>, <<2579, 2600>>, <<2602, 2608>>, <<2610, 2611>>,
    <<2613, 2614>>, <<2616, 2617>>, <<2649, 2652>>, <<2654, 2654>>, <<2662, 2671>>,
    <<2674, 2676>>, <<2693, 2701>>, <<2703, 2705>>, <<2707, 2728>>, <<2730, 2736>>,
    <<2738, 2739>>, <<2741, 2745>>, <<2749, 2749>>, <<2768, 2768>>, <<2784, 2785>>,
    <<2790, 2799>>, <<2809, 2809>>, <<2821, 2828>>, <<2831, 2832>>, <<2835, 2856>>,
    <<2858, 2864>>, <<2866, 2867>>, <<2869, 2873>>, <<2877, 2877>>, <<2908, 2909>>,
    <<2911, 2913>>, <<2918, 2927>>, <<2929, 2935>>, <<2947, 2947>>, <<2949, 2954>>,
    <<2958, 2960>>, <<2962, 2965>>, <<2969, 2970>>, <<2972, 2972>>, <<2974, 2975>>,
    <<2979, 2980>>, <<2984, 2986>>, <<2990, 3001>>, <<3024, 3024>>, <<3046, 3058>>,
    <<3077, 3084>>, <<3086, 3088>>, <<3090, 3112>>, <<3114, 3129>>, <<3133, 3133>>,
    <<3160, 3162>>, <<3165, 3165>>, <<3168, 3169>>, <<3174, 3183>>, <<3192, 3198>>,
    <<3200, 3200>>, <<3205, 3212>>, <<3214, 3216>>, <<3218, 3240>>, <<3242, 3251>>,
    <<3253, 3257>>, <<3261, 3261>>, <<3293, 3294>>, <<3296, 3297>>, <<3302, 3311>>,
    <<3313, 3314>>, <<3332, 3340>>, <<3342, 3344>>, <<3346, 3386>>, <<3389, 3389>>,
    <<3406, 3406>>, <<3412, 3414>>, <<3416, 3425>>, <<3430, 3448>>, <<3450, 3455>>,
    <<3461, 3478>>, <<3482, 3505>>, <<3507, 3515>>, <<3517, 3517>>, <<3520, 3526>>,
    <<3558, 3567>>, <<3585, 3632>>, <<3634, 3635>>, <<3648, 3654>>, <<3664, 3673>>,
    <<3713, 3714>>, <<3716, 3716>>, <<3718, 3722>>, <<3724, 3747>>, <<3749, 3749>>,
    <<3751, 3760>>, <<3762, 3763>>, <<3773, 3773>>, <<3776, 3780>>, <<3782, 3782>>,
    <<3792, 3801>>, <<3804, 3807>>, <<3840, 3840>>, <<3872, 3891>>, <<3904, 3911>>,
    <<3913, 3948>>, <<3976, 3980>>, <<4096, 4138>>, <<4159, 4169>>, <<4176, 4181>>,
    <<4186, 4189>>, <<4193, 4193>>, <<4197, 4198>>, <<4206, 4208>>, <<4213, 4225>>,
    <<4238, 4238>>, <<4240, 4249>>, <<4256, 4293>>, <<4295, 4295>>, <<4301, 4301>>,
    <<4304, 4346>>, <<4348, 4680>>, <<4682, 4685>>, <<4688, 4694>>, <<4696, 4696>>,
    <<4698, 4701>>, <<4704, 4744>>, <<4746, 4749>>, <<4752, 4784>>, <<4786, 4789>>,
    <<4792, 4798>>, <<4800, 4800>>, <<4802, 4805>>, <<4808, 4822>>, <<4824, 4880>>,
    <<4882, 4885>>, <<4888, 4954>>, <<4969, 4988>>, <<4992, 5007>>, <<5024, 5109>>,
    <<5112, 5117>>, <<5121, 5740>>, <<5743, 5759>>, <<5761, 5786>>, <<5792, 5866>>,
    <<5870, 5880>>, <<5888, 5905>>, <<5919, 5937>>, <<5952, 5969>>, <<5984, 5996>>,
    <<5998, 6000>>, <<6016, 6067>>, <<6103, 6103>>, <<6108, 6108>>, <<6112, 6121>>,
    <<6128, 6137>>, <<6160, 6169>>, <<6176, 6264>>, <<6272, 6276>>, <<6279, 6312>>,
    <<6314, 6314>>, <<6320, 6389>>, <<6400, 6430>>, <<6470, 6509>>, <<6512, 6516>>,
    <<6528, 6571>>, <<6576, 6601>>, <<6608, 6618>>, <<6656, 6678>>, <<6688, 6740>>,
    <<6784, 6793>>, <<6800, 6809>>, <<6823, 6823>>, <<6917, 6963>>, <<6981, 6988>>,
    <<6992, 7001>>, <<7043, 7072>>, <<7086, 7141>>, <<7168, 7203>>, <<7232, 7241>>,
    <<7245, 7293>>, <<7296, 7304>>, <<7312, 7354>>, <<7357, 7359>>, <<7401, 7404>>,
    <<7406, 7411>>, <<7413, 7414>>, <<7418, 7418>>, <<7424, 7615>>, <<7680, 7957>>,
    <<7960, 7965>>, <<7968, 8005>>, <<8008, 8013>>, <<8016, 8023>>, <<8025, 8025>>,
    <<8027, 8027>>, <<8029, 8029>>, <<8031, 8061>>, <<8064, 8116>>, <<8118, 8124>>,
    <<8126, 8126>>, <<8130, 8132>>, <<8134, 8140>>, <<8144, 8147>>, <<8150, 8155>>,
    <<8160, 8172>>, <<8178, 8180>>, <<8182, 8188>>, <<8304, 8305>>, <<8308, 8313>>,
    <<8319, 8329>>, <<8336, 8348>>, <<8450, 8450>>, <<8455, 8455>>, <<8458, 8467>>,
    <<8469, 8469>>, <<8473, 8477>>, <<8484, 8484>>, <<8486, 8486>>, <<8488, 8488>>,
    <<8490, 8493>>, <<8495, 8505>>, <<8508, 8511>>, <<8517, 8521>>, <<8526, 8526>>,
    <<8528, 8585>>, <<9312, 9371>>, <<9450, 9471>>, <<10102, 10131>>, <<11264, 11492>>,
    <<11499, 11502>>, <<11506, 11507>>, <<11517, 11517>>, <<11520, 11557>>, <<11559, 11559>>,
    <<11565, 11565>>, <<11568, 11623>>, <<11631, 11631>>, <<11648, 11670>>, <<11680, 11686>>,
    <<11688, 11694>>, <<11696, 11702>>, <<11704, 11710>>, <<11712, 11718>>, <<11720, 11726>>,
    <<11728, 11734>>, <<11736, 11742>>, <<11823, 11823>>, <<12293, 12295>>, <<12321, 12329>>,
    <<12337, 12341>>, <<12344, 12348>>, <<12353, 12438>>, <<12445, 12447>>, <<12449, 12538>>,
    <<12540, 12543>>, <<12549, 12591>>, <<12593, 12686>>, <<12690, 12693>>, <<12704, 12735>>,
    <<12784, 12799>>, <<12832, 12841>>, <<12872, 12879>>, <<12881, 12895>>, <<12928, 12937>>,
    <<12977, 12991>>, <<13312, 19903>>, <<19968, 42124>>, <<42192, 42237>>, <<42240, 42508>>,
    <<42512, 42539>>, <<42560, 42606>>, <<42623, 42653>>, <<42656, 42735>>, <<42775, 42783>>,
    <<42786, 42888>>, <<42891, 42954>>, <<42960, 42961>>, <<42963, 42963>>, <<42965, 42969>>,
    <<42994, 43009>>, <<43011, 43013>>, <<43015, 43018>>, <<43020, 43042>>, <<43056, 43061>>,
    <<43072, 43123>>, <<43138, 43187>>, <<43216, 43225>>, <<43250, 43255>>, <<43259, 43259>>,
    <<43261, 43262>>, <<43264, 43301>>, <<43312, 43334>>, <<43360, 43388>>, <<43396, 43442>>,
    <<43471, 43481>>, <<43488, 43492>>, <<43494, 43518>>, <<43520, 43560>>, <<43584, 43586>>,
    <<43588, 43595>>, <<43600, 43609>>, <<43616, 43638>>, <<43642, 43642>>, <<43646, 43695>>,
    <<43697, 43697>>, <<43701, 43702>>, <<43705, 43709>>, <<43712, 43712>>, <<43714, 43714>>,
    <<43739, 43741>>, <<43744, 43754>>, <<43762, 43764>>, <<43777, 43782>>, <<43785, 43790>>,
    <<43793, 43798>>, <<43808, 43814>>, <<43816, 43822>>, <<43824, 43866>>, <<43868, 43881>>,
    <<43888, 44002>>, <<44016, 44025>>, <<44032, 55203>>, <<55216, 55238>>, <<55243, 55291>>,
    <<63744, 64109>>, <<64112, 64217>>, <<64256, 64262>>, <<64275, 64279>>, <<64285, 64285>>,
    <<64287, 64296>>, <<64298, 64310>>, <<64312, 64316>>, <<64318, 64318>>, <<64320, 64321>>,
    <<64323, 64324>>, <<64326, 64433>>, <<64467, 64829>>, <<64848, 64911>>, <<64914, 64967>>,
    <<65008, 65019>>, <<65136, 65140>>, <<65142, 65276>>, <<65296, 65305>>, <<65313, 65338>>,
    <<65345, 65370>>, <<65382, 65470>>, <<65474, 65479>>, <<65482, 65487>>, <<65490, 65495>>,
    <<65498, 65500>>, <<65536, 65547>>, <<65549, 65574>>, <<65576, 65594>>, <<65596, 65597>>,
    <<65599, 65613>>, <<65616, 65629>>, <<65664, 65786>>, <<65799, 65843>>, <<65856, 65912>>,
    <<65930, 65931>>, <<66176, 66204>>, <<66208, 66256>>, <<66273, 66299>>, <<66304, 66339>>,
    <<66349, 66378>>, <<66384, 66421>>, <<66432, 66461>>, <<66464, 66499>>, <<66504, 66511>>,
    <<66513, 66517>>, <<66560, 66717>>, <<66720, 66729>>, <<66736, 66771>>, <<66776, 66811>>,
    <<66816, 66855>>, <<66864, 66915>>, <<66928, 66938>>, <<66940, 66954>>, <<66956, 66962>>,
    <<66964, 66965>>, <<66967, 66977>>, <<66979, 66993>>, <<66995, 67001>>, <<67003, 67004>>,
    <<67072, 67382>>, <<67392, 67413>>, <<67424, 67431>>, <<67456, 67461>>, <<67463, 67504>>,
    <<67506, 67514>>, <<67584, 67589>>, <<67592, 67592>>, <<67594, 67637>>, <<67639, 67640>>,
    <<67644, 67644>>, <<67647, 67669>>, <<67672, 67702>>, <<67705, 67742>>, <<67751, 67759>>,
    <<67808, 67826>>, <<67828, 67829>>, <<67835, 67867>>, <<67872, 67897>>, <<67968, 68023>>,
    <<68028, 68047>>, <<68050, 68096>>, <<68112, 68115>>, <<68117, 68119>>, <<68121, 68149>>,
    <<68160, 68168>>, <<68192, 68222>>, <<68224, 68255>>, <<68288, 68295>>, <<68297, 68324>>,
    <<68331, 68335>>, <<68352, 68405>>, <<68416, 68437>>, <<68440, 68466>>, <<68472, 68497>>,
    <<68521, 68527>>, <<68608, 68680>>, <<68736, 68786>>, <<68800, 68850>>, <<68858, 68899>>,
    <<68912, 68921>>, <<69216, 69246>>, <<69248, 69289>>, <<69296, 69297>>, <<69376, 69415>>,
    <<69424, 69445>>, <<69457, 69460>>, <<69488, 69505>>, <<69552, 69579>>, <<69600, 69622>>,
    <<69635, 69687>>, <<69714, 69743>>, <<69745, 69746>>, <<69749, 69749>>, <<69763, 69807>>,
    <<69840, 69864>>, <<69872, 69881>>, <<69891, 69926>>, <<69942, 69951>>, <<69956, 69956>>,
    <<69959, 69959>>, <<69968, 70002>>, <<70006, 70006>>, <<70019, 70066>>, <<70081, 70084>>,
    <<70096, 70106>>, <<70108, 70108>>, <<70113, 70132>>, <<70144, 70161>>, <<70163, 70187>>,
    <<70272, 70278>>, <<70280, 70280>>, <<70282, 70285>>, <<70287, 70301>>, <<70303, 70312>>,
    <<70320, 70366>>, <<70384, 70393>>, <<70405, 70412>>, <<70415, 70416>>, <<70419, 70440>>,
    <<70442, 70448>>, <<70450, 70451>>, <<70453, 70457>>, <<70461, 70461>>, <<70480, 70480>>,
    <<70493, 70497>>, <<70656, 70708>>, <<70727, 70730>>, <<70736, 70745>>, <<70751, 70753>>,
    <<70784, 70831>>, <<70852, 70853>>, <<70855, 70855>>, <<70864, 70873>>, <<71040, 71086>>,
    <<71128, 71131>>, <<71168, 71215>>, <<71236, 71236>>, <<71248, 71257>>, <<71296, 71338>>,
    <<71352, 71352>>, <<71360, 71369>>, <<71424, 71450>>, <<71472, 71483>>, <<71488, 71494>>,
    <<71680, 71723>>, <<71840, 71922>>, <<71935, 71942>>, <<71945, 71945>>, <<71948, 71955>>,
    <<71957, 71958>>, <<71960, 71983>>, <<71999, 71999>>, <<72001, 72001>>, <<72016, 72025>>,
    <<72096, 72103>>, <<72106, 72144>>, <<72161, 72161>>, <<72163, 72163>>, <<72192, 72192>>,
    <<72203, 72242>>, <<72250, 72250>>, <<72272, 72272>>, <<72284, 72329>>, <<72349, 72349>>,
    <<72368, 72440>>, <<72704, 72712>>, <<72714, 72750>>, <<72768, 72768>>, <<72784, 72812>>,
    <<72818, 72847>>, <<72960, 72966>>, <<72968, 72969>>, <<72971, 73008>>, <<73030, 73030>>,
    <<73040, 73049>>, <<73056, 73061>>, <<73063, 73064>>, <<73066, 73097>>, <<73112, 73112>>,
    <<73120, 73129>>, <<73440, 73458>>, <<73648, 73648>>, <<73664, 73684>>, <<73728, 74649>>,
    <<74752, 74862>>, <<74880, 75075>>, <<77712, 77808>>, <<77824, 78894>>, <<82944, 83526>>,
    <<92160, 92728>>, <<92736, 92766>>, <<92768, 92777>>, <<92784, 92862>>, <<92864, 92873>>,
    <<92880, 92909>>, <<92928, 92975>>, <<92992, 92995>>, <<93008, 93017>>, <<93019, 93025>>,
    <<93027, 93047>>, <<93053, 93071>>, <<93760, 93846>>, <<93952, 94026>>, <<94032, 94032>>,
    <<94099, 94111>>, <<94176, 94177>>, <<94179, 94179>>, <<94208, 100343>>, <<100352, 101589>>,
    <<101632, 101640>>, <<110576, 110579>>, <<110581, 110587>>, <<110589, 110590>>, <<110592, 110882>>,
    <<110928, 110930>>, <<110948, 110951>>, <<110960, 111355>>, <<113664, 113770>>, <<113776, 113788>>,
    <<113792, 113800>>, <<113808, 113817>>, <<119520, 119539>>, <<119648, 119672>>, <<119808, 119892>>,
    <<119894, 119964>>, <<119966, 119967>>, <<119970, 119970>>, <<119973, 119974>>, <<119977, 119980>>,
    <<119982, 119993>>, <<119995, 119995>>, <<119997, 120003>>, <<120005, 120069>>, <<120071, 120074>>,
    <<120077, 120084>>, <<120086, 120092>>, <<120094, 120121>>, <<120123, 120126>>, <<120128, 120132>>,
    <<120134, 120134>>, <<120138, 120144>>, <<120146, 120485>>, <<120488, 120512>>, <<120514, 120538>>,
    <<120540, 120570>>, <<120572, 120596>>, <<120598, 120628>>, <<120630, 120654>>, <<120656, 120686>>,
    <<120688, 120712>>, <<120714, 120744>>, <<120746, 120770>>, <<120772, 120779>>, <<120782, 120831>>,
    <<122624, 122654>>, <<123136, 123180>>, <<123191, 123197>>, <<123200, 123209>>, <<123214, 123214>>,
    <<123536, 123565>>, <<123584, 123627>>, <<123632, 123641>>, <<124896, 124902>>, <<124904, 124907>>,
    <<124909, 124910>>, <<124912, 124926>>, <<124928, 125124>>, <<125127, 125135>>, <<125184, 125251>>,
    <<125259, 125259>>, <<125264, 125273>>, <<126065, 126123>>, <<126125, 126127>>, <<126129, 126132>>,
    <<126209, 126253>>, <<126255, 126269>>, <<126464, 126467>>, <<126469, 126495>>, <<126497, 126498>>,
    <<126500, 126500>>, <<126503, 126503>>, <<126505, 126514>>, <<126516, 126519>>, <<126521, 126521>>,
    <<126523, 126523>>, <<126530, 126530>>, <<126535, 126535>>, <<126537, 126537>>, <<126539, 126539>>,
    <<126541, 126543>>, <<126545, 126546>>, <<126548, 126548>>, <<126551, 126551>>, <<126553, 126553>>,
    <<126555, 126555>>, <<126557, 126557>>, <<126559, 126559>>, <<126561, 126562>>, <<126564, 126564>>,
    <<126567, 126570>>, <<126572, 126578>>, <<126580, 126583>>, <<126585, 126588>>, <<126590, 126590>>,
    <<126592, 126601>>, <<126603, 126619>>, <<126625, 126627>>, <<126629, 126633>>, <<126635, 126651>>,
    <<127232, 127244>>, <<130032, 130041>>, <<131072, 173791>>, <<173824, 177976>>, <<177984, 178205>>,
    <<178208, 183969>>, <<183984, 191456>>, <<194560, 195101>>, <<196608, 201546>>
  >>

DigitChars == UNION {DigitRanges[i][1]..DigitRanges[i][2] : i \in DOMAIN DigitRanges}
WordChars == UNION {WordRanges[i][1]..WordRanges[i][2] : i \in DOMAIN WordRanges}

\* The classes of wordsep_re: \d, \w, letter = [^\d\W] and
\* word_punct = [\w!"'&.,?]
IsDigit(c) == c \in DigitChars
IsWord(c) == c \in WordChars
IsLetter(c) == ~IsDigit(c) /\ IsWord(c)
IsWordPunct(c) == IsWord(c) \/ c \in {33, 34, 38, 39, 44, 46, 63}

\* The length of the run of whitespace, and of hyphens, that starts at p
RECURSIVE SpaceRun(_, _)
SpaceRun(t, p) == IF IsSpace(At(t, p)) THEN 1 + SpaceRun(t, p + 1) ELSE 0

RECURSIVE HyphenRun(_, _)
HyphenRun(t, p) == IF At(t, p) = DASH THEN 1 + HyphenRun(t, p + 1) ELSE 0

\* (?=-{2,}\w) at p
EmDashAhead(t, p) == HyphenRun(t, p) >= 2 /\ IsWord(At(t, p + HyphenRun(t, p)))

\* -(?:(?<=lt{2}-)|(?<=lt-lt-))(?=lt-?lt), p being the offset after the hyphen
HyphenBreak(t, p) ==
    /\ At(t, p - 1) = DASH
    /\ \/ IsLetter(At(t, p - 3)) /\ IsLetter(At(t, p - 2))
       \/ IsLetter(At(t, p - 4)) /\ At(t, p - 3) = DASH /\ IsLetter(At(t, p - 2))
    /\ IsLetter(At(t, p))
    /\ \/ IsLetter(At(t, p + 1))
       \/ At(t, p + 1) = DASH /\ IsLetter(At(t, p + 2))

\* The third alternative of wordsep_re at offset i, the lazy nws+? having
\* taken k characters: the length matched by the first ending that fits (a
\* hyphen break, the end of the word, an em-dash ahead), else by a longer k
RECURSIVE WordMatch(_, _, _)
WordMatch(t, i, k) ==
    IF HyphenBreak(t, i + k + 1) THEN k + 1
    ELSE IF i + k >= Len(t) \/ IsSpace(At(t, i + k)) THEN k
    ELSE IF IsWordPunct(At(t, i + k - 1)) /\ EmDashAhead(t, i + k) THEN k
    ELSE WordMatch(t, i, k + 1)

\* The length of the match of wordsep_re at offset i: whitespace, an em-dash
\* between words, or a word
ChunkLen(t, i) ==
    IF IsSpace(At(t, i)) THEN SpaceRun(t, i)
    ELSE IF IsWordPunct(At(t, i - 1)) /\ EmDashAhead(t, i) THEN HyphenRun(t, i)
    ELSE WordMatch(t, i, 1)

RECURSIVE ChunksFrom(_, _)
ChunksFrom(t, i) ==
    IF i >= Len(t) THEN <<>>
    ELSE <<SubSeq(t, i + 1, i + ChunkLen(t, i))>> \o ChunksFrom(t, i + ChunkLen(t, i))

\* TextWrapper._split_chunks with break_on_hyphens=True: wordsep_re.split
SplitChunks(t) == ChunksFrom(t, 0)

\* The inner loop of _wrap_chunks: chunks that fit on the current line
RECURSIVE TakeFitting(_, _, _)
TakeFitting(chunks, curLine, w) ==
    IF chunks # <<>> /\ Len(curLine) + Len(Head(chunks)) <= w
    THEN TakeFitting(Tail(chunks), curLine \o Head(chunks), w)
    ELSE [line |-> curLine, rest |-> chunks]

\* chunk.rfind('-', 0, spaceLeft)
RFindHyphen(chunk, spaceLeft) ==
    LET hits == {p \in 0..(Min(spaceLeft, Len(chunk)) - 1) : chunk[p + 1] = DASH}
    IN  IF hits = {} THEN -1 ELSE CHOOSE p \in hits : \A q \in hits : q <= p

\* TextWrapper._handle_long_word: where the chunk is cut; after the last
\* hyphen that fits when non-hyphens come before it
LongWordEnd(chunk, spaceLeft) ==
    LET hyphen == RFindHyphen(chunk, spaceLeft)
    IN  IF /\ Len(chunk) > spaceLeft
           /\ hyphen > 0
           /\ \E p \in 1..hyphen : chunk[p] # DASH
        THEN hyphen + 1
        ELSE spaceLeft

\* TextWrapper._wrap_chunks with drop_whitespace=False, break_long_words=True
RECURSIVE WrapChunks(_, _)
WrapChunks(chunks, w) ==
    IF chunks = <<>> THEN <<>>
    ELSE LET f == TakeFitting(chunks, <<>>, w)
             long == f.rest # <<>> /\ Len(Head(f.rest)) > w
             spaceLeft == IF w < 1 THEN 1 ELSE w - Len(f.line)
             end == LongWordEnd(Head(f.rest), spaceLeft)
             curLine == IF long THEN f.line \o Prefix(Head(f.rest), end)
                        ELSE f.line
             rest == IF long
                     THEN <<Suffix(Head(f.rest), end)>> \o Tail(f.rest)
                     ELSE f.rest
         IN  (IF curLine # <<>> THEN <<curLine>> ELSE <<>>) \o WrapChunks(rest, w)

\* self.wrap(line)
Wrap(line, w) == WrapChunks(SplitChunks(line), w)

\* The (start, stop, fold) triples in the order they are yielded
RECURSIVE Triples(_, _)
Triples(folds, start) ==
    IF folds = <<>> THEN <<>>
    ELSE LET stop == start + Len(Head(folds))
         IN  <<[start |-> start, stop |-> stop, fold |-> Head(folds)]>>
                 \o Triples(Tail(folds), stop)

\* Wrapper.__call__
WrapperCall(t, w) ==
    LET lines == SplitLines(t, <<>>)
        padded(i) == IF i < Len(lines) THEN Append(lines[i], SP) ELSE lines[i]
    IN  Triples(Concat([i \in 1..Len(lines) |-> Wrap(padded(i), w)]), 0)

----------------------------------------------------------------------------
(* AsciiMarkup.as_ascii *)

\* The while loop of as_ascii for the line [start, stop): the indices of the
\* groups it slices, and the value of `index` it leaves
RECURSIVE SelectFrom(_, _, _, _, _)
SelectFrom(ml, i, acc, start, stop) ==
    IF i >= Len(ml) THEN [sel |-> acc, index |-> i]
    ELSE LET multi == ml[i + 1]
         IN  IF multi.start >= stop THEN [sel |-> acc, index |-> i]
             ELSE IF multi.stop <= stop
                  THEN SelectFrom(ml, i + 1, Append(acc, i), start, stop)
             ELSE [sel |-> Append(acc, i), index |-> i]

\* Multiline(max(multi.start, start), min(multi.stop, stop), multi.lines)
Slice(multi, start, stop) ==
    Multiline(Max(multi.start, start), Min(multi.stop, stop), multi.lines)

\* height = max(line.level for slice in slices for line in slice.lines) + 1
Height(slices) ==
    LET levels == UNION {{slices[i].lines[j].level : j \in DOMAIN slices[i].lines} :
                            i \in DOMAIN slices}
    IN  (CHOOSE m \in levels : \A n \in levels : n <= m) + 1

\* range(a, b) as a sequence
Range(a, b) == [k \in 1..Max(0, b - a) |-> a + k - 1]

\* The first pass: matrix[line.level][x - start] = '-'
DashWrites(slices, start) ==
    Concat([i \in DOMAIN slices |->
        Concat([j \in DOMAIN slices[i].lines |->
            [k \in DOMAIN Range(slices[i].start, slices[i].stop) |->
                [row |-> slices[i].lines[j].level,
                 col |-> Range(slices[i].start, slices[i].stop)[k] - start,
                 ch |-> DASH, kind |-> "dash", slice |-> i, line |-> j]]])])

\* `if line.type`: None and '' are false
Truthy(type) == ~type.isNone /\ type.str # <<>>

\* The label cut to the row's size only
LabelTextNoSpace(line, slice, start, w) ==
    Prefix(line.type.str, line.stop - line.start)

\* `if line.type and line.start == slice.start`
Labelled(line, slice) == Truthy(line.type) /\ line.start = slice.start

\* type = line.type[:min(size, space)]
LabelText(line, slice, start, w) ==
    LET size == line.stop - line.start
        space == w - (slice.start - start)
    IN  Prefix(line.type.str, Min(size, space))

\* The second pass: matrix[line.level][slice.start - start + x] = char
LabelWrites(slices, start, w) ==
    Concat([i \in DOMAIN slices |->
        Concat([j \in DOMAIN slices[i].lines |->
            IF Labelled(slices[i].lines[j], slices[i])
            THEN LET type == LabelText(slices[i].lines[j], slices[i], start, w)
                 IN  [x \in DOMAIN type |->
                        [row |-> slices[i].lines[j].level,
                         col |-> slices[i].start - start + (x - 1),
                         ch |-> type[x], kind |-> "label", slice |-> i, line |-> j]]
            ELSE <<>>])])

\* A list index Python accepts for a list of length n, and the element it names
IndexOk(i, n) == -n <= i /\ i < n
Norm(i, n) == IF i < 0 THEN i + n ELSE i

\* The matrix after the writes, in order; rows and columns 1-based here
Matrix(writes, h, w) ==
    [r \in 1..h |-> [c \in 1..w |->
        LET hits == {n \in DOMAIN writes :
                        /\ Norm(writes[n].row, h) = r - 1
                        /\ Norm(writes[n].col, w) = c - 1}
        IN  IF hits = {} THEN SP
            ELSE writes[CHOOSE n \in hits : \A m \in hits : m <= n].ch]]

\* line.replace('\t', ' ')
ReplaceTabs(s) == [i \in DOMAIN s |-> IF s[i] = TAB THEN SP ELSE s[i]]

\* as_ascii's for loop up to the yield of the line (lines 252-269): the
\* locals the generator holds while it is suspended there
SelectedLine(ml, i, t) ==
    LET r == SelectFrom(ml, i, <<>>, t.start, t.stop)
    IN  [start |-> t.start, stop |-> t.stop, fold |-> t.fold,
         before |-> i, after |-> r.index, sel |-> r.sel,
         slices |-> [n \in DOMAIN r.sel |-> Slice(ml[r.sel[n] + 1], t.start, t.stop)]]

\* The rest of the iteration (lines 271-294) for the locals f: height, the
\* matrix writes in order, whether one of them raises IndexError, the matrix
PaintedLine(f) ==
    LET w == Len(f.fold)
        h == IF f.slices = <<>> THEN 0 ELSE Height(f.slices)
        writes == IF f.slices = <<>> THEN <<>>
                  ELSE DashWrites(f.slices, f.start) \o LabelWrites(f.slices, f.start, w)
        failed == \E n \in DOMAIN writes :
                      ~IndexOk(writes[n].row, h) \/ ~IndexOk(writes[n].col, w)
    IN  [start |-> f.start, stop |-> f.stop, fold |-> f.fold,
         before |-> f.before, after |-> f.after, sel |-> f.sel, slices |-> f.slices,
         height |-> h, writes |-> writes, failed |-> failed,
         matrix |-> IF failed THEN <<>> ELSE Matrix(writes, h, w)]

\* The generator before its first line
NoFrame ==
    [start |-> 0, stop |-> 0, fold |-> <<>>, before |-> 0, after |-> 0,
     sel |-> <<>>, slices |-> <<>>]

----------------------------------------------------------------------------
(* The state machine *)

\* Markup.__init__, AsciiMarkup.__init__ and the as_ascii property: the
\* generator exists and has not run; its index will start at 0
Construct ==
    /\ pc = "new"
    /\ spans' = Sorted(input)
    /\ multilines' = get_multilines(spans')
    /\ pending' = WrapperCall(text, width)
    /\ index' = 0
    /\ pc' = "rendering"
    /\ UNCHANGED <<text, width, input, frame, rowsLeft, log, out>>

\* The for statement (line 252), the log being lg: the wrapper is exhausted
\* and the generator returns, or the groups of the next triple are selected
\* and its line is yielded (line 269)
LoopHead(lg) ==
    /\ log' = lg
    /\ rowsLeft' = <<>>
    /\ IF pending = <<>>
       THEN /\ pc' = "done"
            /\ UNCHANGED <<pending, index, frame, out>>
       ELSE LET f == SelectedLine(multilines, index, Head(pending))
            IN  /\ frame' = f
                /\ index' = f.after
                /\ out' = Append(out, ReplaceTabs(f.fold))
                /\ pending' = Tail(pending)
                /\ pc' = "line"

\* The generator resumed after the yield of a line: the matrix is painted; a
\* write out of range raises IndexError, else the first row is yielded (line
\* 296), or without slices the loop goes on
AfterLine ==
    LET e == PaintedLine(frame)
    IN  IF e.failed
        THEN /\ pc' = "error"
             /\ log' = Append(log, e)
             /\ UNCHANGED <<pending, index, frame, rowsLeft, out>>
        ELSE IF e.matrix # <<>>
        THEN /\ pc' = "row"
             /\ log' = Append(log, e)
             /\ out' = Append(out, Head(e.matrix))
             /\ rowsLeft' = Tail(e.matrix)
             /\ UNCHANGED <<pending, index, frame>>
        ELSE LoopHead(Append(log, e))

\* The generator resumed after the yield of a row: the next row is yielded,
\* or after the last row the loop goes on
AfterRow ==
    IF rowsLeft # <<>>
    THEN /\ out' = Append(out, Head(rowsLeft))
         /\ rowsLeft' = Tail(rowsLeft)
         /\ UNCHANGED <<pending, index, frame, log, pc>>
    ELSE LoopHead(log)

\* One next() on the generator as_ascii returned: it runs from where it is
\* suspended to its next yield, its return or its exception
Resume ==
    /\ pc \in {"rendering", "line", "row"}
    /\ CASE pc = "rendering" -> LoopHead(log)
         [] pc = "line" -> AfterLine
         [] pc = "row" -> AfterRow
    /\ UNCHANGED <<text, width, input, spans, multilines>>

Next == Construct \/ Resume

SeqsUpTo(S, n) == UNION {[1..k -> S] : k \in 0..n}

InitWith(texts, widths, inputs) ==
    /\ text \in texts
    /\ width \in widths
    /\ input \in inputs
    /\ spans = <<>>
    /\ multilines = <<>>
    /\ pending = <<>>
    /\ index = 0
    /\ frame = NoFrame
    /\ rowsLeft = <<>>
    /\ log = <<>>
    /\ out = <<>>
    /\ pc = "new"

\* The spans Span.__init__ accepts with offsets in lo..hi and a type of types
SpansOver(lo, hi, types) ==
    {s \in {Span(a, b, t) : a \in lo..hi, b \in lo..hi, t \in types} :
        s.start < s.stop}

\* The inputs a caller passes in descending order, so that sorting reverses them
Descending(inputs) ==
    {s \in inputs : \A i \in DOMAIN s, j \in DOMAIN s : i < j => ~Lt(s[i], s[j])}

\* Rendering: texts of letters and spaces; spans that may reach before offset 0
\* and past the end of the text; labels absent, empty, and longer than a short
\* span
Init ==
    InitWith(SeqsUpTo({97, SP}, MaxTextLen), 1..MaxWidth,
             Descending(SeqsUpTo(SpansOver(-1, MaxTextLen,
                                           {None, Str(<<>>), Str(<<65, 66>>)}),
                                 MaxSpans)))

Spec == Init /\ [][Next]_vars

\* Layout: more, unlabelled, spans inside the text
InitLayout ==
    InitWith(SeqsUpTo({97, SP}, MaxLayoutLen), 1..MaxWidth,
             Descending(SeqsUpTo(SpansOver(0, MaxLayoutLen, {None}), MaxLayoutSpans)))

SpecLayout == InitLayout /\ [][Next]_vars

\* Wrapping: texts of ASCII and non-ASCII letters ("a", e-acute), a non-ASCII
\* digit (ARABIC-INDIC ONE), hyphens, spaces and line breaks; no spans
InitWrap ==
    InitWith(SeqsUpTo({97, 233, 1633, DASH, SP, LF, CR, 11}, MaxWrapLen),
             1..MaxWrapWidth, {<<>>})

SpecWrap == InitWrap /\ [][Next]_vars

\* Ordering: spans in any order, with absent and prefix-related types
InitOrder ==
    InitWith({<<97>>}, {1},
             SeqsUpTo(SpansOver(0, MaxOrderPos, {None, Str(<<65>>), Str(<<65, 66>>)}),
                      MaxOrderSpans))

SpecOrder == InitOrder /\ [][Next]_vars

----------------------------------------------------------------------------
(* Properties.  e ranges over the records of log: one per wrapped line. *)

\* The columns of the line starting at `start` that the offsets [a, b) fall on
Cols(a, b, start) == {x - start : x \in a..(b - 1)}

\* The n-th group selected on line e, and its j-th row
Group(e, n) == multilines[e.sel[n] + 1]
Row(e, n, j) == Group(e, n).lines[j]

\* The dash writes made on line e for row j of the n-th selected group
DashOf(e, n, j) ==
    {m \in DOMAIN e.writes :
        e.writes[m].kind = "dash" /\ e.writes[m].slice = n /\ e.writes[m].line = j}
DashCols(e, n, j) == {e.writes[m].col : m \in DashOf(e, n, j)}
DashRows(e, n, j) == {e.writes[m].row : m \in DashOf(e, n, j)}

\* The label writes made on line e for row j of the n-th selected group, in order
LabelOf(e, n, j) ==
    LET ws == SelectSeq(e.writes,
                  LAMBDA w : w.kind = "label" /\ w.slice = n /\ w.line = j)
    IN  [x \in DOMAIN ws |-> <<ws[x].row, ws[x].col, ws[x].ch>>]

\* The label of `row` drawn from its own start on line e, cut to the smaller of
\* the row's width on the line and the rest of the line
LabelAtStart(e, row) ==
    LET sliced == Min(row.stop, e.stop) - row.start
        rest == e.stop - row.start
        t == Prefix(row.type.str, Min(sliced, rest))
    IN  [x \in DOMAIN t |-> <<row.level, row.start - e.start + (x - 1), t[x]>>]

\* The lines on which row j of group gi (0-based) has a label drawn
LabelLines(gi, j) ==
    {k \in DOMAIN log :
        \E n \in DOMAIN log[k].sel :
            log[k].sel[n] = gi /\ LabelOf(log[k], n, j) # <<>>}

MaxOf(S) == CHOOSE m \in S : \A n \in S : n <= m

Intersects(x, start, stop) == x.start < stop /\ x.stop > start

\* All rows of all groups
AllRows == UNION {{multilines[g].lines[j] : j \in DOMAIN multilines[g].lines} :
                     g \in DOMAIN multilines}

\* C1 as stated: on every line, each row of each selected group has dashes at
\* its level on exactly the columns where the row's own extent meets the line
C1_DashOnRowExtent ==
    \A k \in DOMAIN log : LET e == log[k] IN
        \A n \in DOMAIN e.sel : \A j \in DOMAIN Group(e, n).lines :
            LET row == Row(e, n, j) IN
            /\ DashCols(e, n, j) =
                   Cols(Max(row.start, e.start), Min(row.stop, e.stop), e.start)
            /\ DashRows(e, n, j) \subseteq {row.level}

\* C2 as stated: on a line, two rows at the same level never have overlapping
\* painted column ranges
C2_SameLevelRowsDisjoint ==
    \A k \in DOMAIN log : LET e == log[k] IN
        \A n1 \in DOMAIN e.sel, n2 \in DOMAIN e.sel :
            \A j1 \in DOMAIN Group(e, n1).lines, j2 \in DOMAIN Group(e, n2).lines :
                (<<n1, j1>> # <<n2, j2>>
                    /\ Row(e, n1, j1).level = Row(e, n2, j2).level)
                => DashCols(e, n1, j1) \cap DashCols(e, n2, j2) = {}

\* C3 as stated: once rendering is done, every row with a non-empty category
\* that starts inside the text has its label on exactly one line, the line
\* holding the row's start, drawn from that start and cut to the row's width on
\* the line and the line's rest
C3_LabelOnStartLine ==
    pc = "done" =>
        \A g \in DOMAIN multilines : \A j \in DOMAIN multilines[g].lines :
            LET row == multilines[g].lines[j] IN
            (Truthy(row.type) /\ 0 <= row.start /\ row.start < Len(text)) =>
                /\ LabelLines(g - 1, j) =
                       {k \in DOMAIN log :
                           log[k].start <= row.start /\ row.start < log[k].stop}
                /\ Cardinality(LabelLines(g - 1, j)) = 1
                /\ \A k \in LabelLines(g - 1, j) :
                       \A n \in DOMAIN log[k].sel :
                           log[k].sel[n] = g - 1 =>
                               LabelOf(log[k], n, j) = LabelAtStart(log[k], row)

\* C4 as stated, for the lines that some row reaches: the line is followed by
\* 1 + the largest level among the rows whose extent meets it
C4_HeightFromReachingRows ==
    \A k \in DOMAIN log : LET e == log[k] IN
        LET reaching == {r \in AllRows : Intersects(r, e.start, e.stop)} IN
        reaching # {} => Len(e.matrix) = 1 + MaxOf({r.level : r \in reaching})

\* The folds yielded so far, joined
Joined == Concat([k \in DOMAIN log |-> log[k].fold])

\* A str with every line break character replaced by a space
BreakCharsToSpaces(t) == [i \in DOMAIN t |-> IF IsLineBreak(t[i]) THEN SP ELSE t[i]]

\* A str with every line break ("\r\n" counting as one) replaced by one space
RECURSIVE BreaksToSpaces(_)
BreaksToSpaces(t) ==
    IF t = <<>> THEN <<>>
    ELSE IF Head(t) = CR /\ Len(t) >= 2 /\ t[2] = LF
         THEN <<SP>> \o BreaksToSpaces(Tail(Tail(t)))
    ELSE IF IsLineBreak(Head(t)) THEN <<SP>> \o BreaksToSpaces(Tail(t))
    ELSE <<Head(t)>> \o BreaksToSpaces(Tail(t))

\* C5 as stated: once the wrapper is exhausted, the yielded ranges are
\* non-empty, start at 0, each start is the previous stop, and the last stop is
\* len(text)
C5_FoldsCoverText ==
    pc = "done" =>
        /\ \A k \in DOMAIN log :
               /\ log[k].start < log[k].stop
               /\ log[k].start = IF k = 1 THEN 0 ELSE log[k - 1].stop
        /\ (IF log = <<>> THEN 0 ELSE log[Len(log)].stop) = Len(text)

\* C6 as stated: once the wrapper is exhausted, the folds joined in order are
\* the text with every line break replaced by one space, and each fold is
\* text[start:stop] up to that replacement
C6_WrapLossless ==
    pc = "done" =>
        /\ Joined = BreaksToSpaces(text)
        /\ \A k \in DOMAIN log :
               log[k].fold =
                   BreakCharsToSpaces(SubSeq(text, log[k].start + 1, log[k].stop))

\* The largest number of rows of group g that cover one column
Depth(g) ==
    MaxOf({Cardinality({j \in DOMAIN g.lines :
                           g.lines[j].start <= c /\ c < g.lines[j].stop}) :
              c \in g.start..(g.stop - 1)})

Levels(g) == {g.lines[j].level : j \in DOMAIN g.lines}

\* C7: in every group of the constructed document, the number of distinct
\* levels is at most the largest number of rows covering one column
C7_LevelsWithinOverlapDepth ==
    \A g \in DOMAIN multilines :
        Cardinality(Levels(multilines[g])) <= Depth(multilines[g])

\* A group of three rows in which a level is reused
C7_Witness ==
    \E g \in DOMAIN multilines :
        /\ Len(multilines[g].lines) = 3
        /\ Cardinality(Levels(multilines[g])) = 2
        /\ Depth(multilines[g]) = 2

\* The order the claim describes: start, then stop, then category, an absent
\* category before any present one
TypeBefore(s, t) ==
    s # t /\ (s.isNone \/ (~t.isNone /\ StrLt(s.str, t.str)))

KeyBefore(a, b) ==
    \/ a.start < b.start
    \/ a.start = b.start /\ a.stop < b.stop
    \/ a.start = b.start /\ a.stop = b.stop /\ TypeBefore(a.type, b.type)

IsPermutation(s, t) ==
    /\ Len(s) = Len(t)
    /\ \A x \in {s[i] : i \in DOMAIN s} \cup {t[i] : i \in DOMAIN t} :
           Cardinality({i \in DOMAIN s : s[i] = x})
               = Cardinality({i \in DOMAIN t : t[i] = x})

\* C8: on the spans given, __lt__ is irreflexive and transitive, orders by
\* start, stop, then category (absent first), and relates any two spans one
\* way exactly unless they are equal; the constructed list is the given spans
\* in ascending order, and sorting it again changes nothing
C8_LtStrictTotalOrder ==
    /\ \A i \in DOMAIN input, j \in DOMAIN input, k \in DOMAIN input :
           LET a == input[i]
               b == input[j]
               c == input[k]
           IN  /\ ~Lt(a, a)
               /\ (Lt(a, b) /\ Lt(b, c)) => Lt(a, c)
               /\ Lt(a, b) <=> KeyBefore(a, b)
               /\ ~(Lt(a, b) /\ Lt(b, a))
               /\ (~Lt(a, b) /\ ~Lt(b, a)) <=> (a = b)
    /\ pc # "new" =>
           /\ IsPermutation(spans, input)
           /\ \A i \in DOMAIN spans, j \in DOMAIN spans :
                  i < j => ~Lt(spans[j], spans[i])
           /\ Sorted(spans) = spans

\* Three spans given out of order that differ in category only, one absent
C8_Witness ==
    /\ pc # "new"
    /\ Len(input) = 3
    /\ spans # input
    /\ \A i \in DOMAIN input, j \in DOMAIN input :
           /\ input[i].start = input[j].start
           /\ input[i].stop = input[j].stop
           /\ i # j => input[i].type # input[j].type
    /\ \E i \in DOMAIN input : input[i].type.isNone

\* C9: rendering never stops with an error, and every matrix write of every
\* line has its row in [0, height) and its column in [0, len(line))
C9_WritesInRange ==
    /\ pc # "error"
    /\ \A k \in DOMAIN log : LET e == log[k] IN
           /\ ~e.failed
           /\ \A m \in DOMAIN e.writes :
                  /\ 0 <= e.writes[m].row /\ e.writes[m].row < e.height
                  /\ 0 <= e.writes[m].col /\ e.writes[m].col < Len(e.fold)

\* A finished rendering with a group reaching before offset 0, a group reaching
\* past the end of the text, and a label cut at the last column of its line
C9_Witness ==
    /\ pc = "done"
    /\ \E g \in DOMAIN multilines : multilines[g].start < 0
    /\ \E g \in DOMAIN multilines : multilines[g].stop > Len(text)
    /\ \E k \in DOMAIN log : LET e == log[k] IN
           \E m \in DOMAIN e.writes :
               /\ e.writes[m].kind = "label"
               /\ e.writes[m].col = Len(e.fold) - 1
               /\ Len(LabelOf(e, e.writes[m].slice, e.writes[m].line))
                      < Len(Row(e, e.writes[m].slice, e.writes[m].line).type.str)

\* C10 as stated: the groups selected for a line are exactly the groups whose
\* extent meets the line, and the group index never decreases
C10_SelectedAreIntersecting ==
    \A k \in DOMAIN log : LET e == log[k] IN
        /\ {e.sel[n] + 1 : n \in DOMAIN e.sel}
               = {g \in DOMAIN multilines :
                     Intersects(multilines[g], e.start, e.stop)}
        /\ e.before <= e.after

====
